---- MODULE Spec2Model ----
(***************************************************************************)
(* Journal-tracked SQL migration runner of talethreads-backend             *)
(* (src/src/db/migrate.ts): runMigrations, rollbackMigrations and the      *)
(* require.main blocks that dispatch the command line.                     *)
(*                                                                         *)
(* File names and tags are JavaScript strings, modelled as sequences of    *)
(* one-character strings so that endsWith, replace and sort are computed   *)
(* as the code computes them.  A value that may be undefined is a sequence *)
(* of length 0 (undefined) or 1 (the value).                               *)
(*                                                                         *)
(* An action is the code between two awaits that suspend on I/O: the       *)
(* reply of db.execute and the completion of pool.end().  db.execute may   *)
(* resolve or reject at every call.  Date.now() is a clock that ticks once *)
(* per call.  A parsed journal file is a MigrationJournal, a directory     *)
(* that cannot be read behaves as an empty one (getMigrationFiles returns  *)
(* []), and pool.end() does not throw.                                     *)
(***************************************************************************)
EXTENDS Integers, Sequences, FiniteSets, TLC

VARIABLES
    dirFiles,      \* names present in drizzle/migrations (MIGRATIONS_DIR)
    journalFile,   \* meta/_journal.json on disk
    writable,      \* whether writeFileSync on the journal path succeeds
    inv,           \* per invocation: the async function's locals and position
    prev,          \* summary of the previously settled call (sequential caller)
    runs,          \* number of calls started by the sequential caller
    now,           \* Date.now(), a coarse clock
    mainModule,    \* require.main === module: the file runs as a script
    argv,          \* process.argv.slice(2) of the script
    exitCode       \* code passed to process.exit, -1 while the process runs

vars == <<dirFiles, journalFile, writable, inv, prev, runs, now, mainModule, argv, exitCode>>

-----------------------------------------------------------------------------
(* Bounds of the model *)

MaxFiles == 3      \* at most this many names in the migrations directory
MaxJournal == 3    \* at most this many entries in the initial journal
MaxRuns == 2       \* calls made by the sequential caller
MaxCount == 2      \* largest count argument tried

-----------------------------------------------------------------------------
(* JavaScript strings *)

\* UTF-16 code units of the characters used
CharCode(c) ==
    CASE c = "." -> 46
      [] c = "a" -> 97
      [] c = "b" -> 98
      [] c = "c" -> 99
      [] c = "d" -> 100
      [] c = "l" -> 108
      [] c = "q" -> 113
      [] c = "s" -> 115
      [] c = "t" -> 116
      [] c = "x" -> 120
      [] c = "z" -> 122

DotSql == <<".", "s", "q", "l">>

\* String.prototype.endsWith
EndsWith(s, suffix) ==
    /\ Len(s) >= Len(suffix)
    /\ SubSeq(s, Len(s) - Len(suffix) + 1, Len(s)) = suffix

\* String.prototype.indexOf, 1-based; 0 when absent
IndexOf(s, pat) ==
    LET hits == {i \in 1..(Len(s) - Len(pat) + 1) : SubSeq(s, i, i + Len(pat) - 1) = pat}
    IN  IF hits = {} THEN 0 ELSE CHOOSE i \in hits : \A j \in hits : i <= j

\* String.prototype.replace with a string pattern: the first occurrence only
ReplaceFirst(s, pat, rep) ==
    LET i == IndexOf(s, pat)
    IN  IF i = 0 THEN s
        ELSE SubSeq(s, 1, i - 1) \o rep \o SubSeq(s, i + Len(pat), Len(s))

\* Comparison of two strings by code units, as Array.prototype.sort() without a comparator
RECURSIVE StrLess(_, _)
StrLess(s, t) ==
    IF t = <<>> THEN FALSE
    ELSE IF s = <<>> THEN TRUE
    ELSE IF CharCode(Head(s)) # CharCode(Head(t)) THEN CharCode(Head(s)) < CharCode(Head(t))
    ELSE StrLess(Tail(s), Tail(t))

RECURSIVE InsertSorted(_, _)
InsertSorted(x, sorted) ==
    IF sorted = <<>> THEN <<x>>
    ELSE IF StrLess(x, Head(sorted)) THEN <<x>> \o sorted
    ELSE <<Head(sorted)>> \o InsertSorted(x, Tail(sorted))

\* Array.prototype.sort() on strings (stable; ascending code-unit order)
RECURSIVE SortStrings(_)
SortStrings(seq) ==
    IF seq = <<>> THEN <<>>
    ELSE InsertSorted(seq[Len(seq)], SortStrings(SubSeq(seq, 1, Len(seq) - 1)))

Range(seq) == {seq[i] : i \in 1..Len(seq)}

\* All orders in which readdirSync may list a set of names
Listings(S) ==
    {l \in [1..Cardinality(S) -> S] : \A i, j \in 1..Cardinality(S) : i # j => l[i] # l[j]}

-----------------------------------------------------------------------------
(* The migrations directory and the journal file *)

FileA == <<"a">> \o DotSql
FileB == <<"b">> \o DotSql
FileC == <<"c">> \o DotSql
FileD == <<"d">> \o DotSql
FileTxt == <<"a", ".", "t", "x", "t">>

\* The names a migrations directory may hold
FileUniverse == {FileA, FileB, FileC, FileD, FileTxt}

\* A tag that names no file of the universe
GhostTag == <<"z">>

\* The text of each file; b.sql is an empty file
FileText(name) == IF name = FileB THEN "" ELSE "SQL"

\* readMigrationFile: the content, or null (the empty sequence) when the read throws
readMigrationFile(filename) ==
    IF filename \in dirFiles THEN <<FileText(filename)>> ELSE <<>>

\* Falsy that takes only null for falsy
Falsy_NullOnly(content) == content = <<>>

\* JavaScript falsiness of a string-or-null: null and the empty string
Falsy(content) == content = <<>> \/ content[1] = ""

NullJournal == [present |-> FALSE, version |-> "", dialect |-> "", entries |-> <<>>]

MigrationEntry(idx, version, when, tag) ==
    [idx |-> idx, version |-> version, when |-> when, tag |-> tag, breakpoints |-> TRUE]

MigrationJournal(entries) ==
    [present |-> TRUE, version |-> "7", dialect |-> "postgresql", entries |-> entries]

\* readMigrationJournal that takes a file it cannot parse for an empty journal
readMigrationJournal_CorruptAsEmpty ==
    IF journalFile.state = "ok" THEN journalFile.data
    ELSE IF journalFile.state = "corrupt" THEN MigrationJournal(<<>>)
    ELSE NullJournal

\* readMigrationJournal: the parsed file, or null when the read or the parse throws
readMigrationJournal ==
    IF journalFile.state = "ok" THEN journalFile.data ELSE NullJournal

\* saveMigrationJournal that keeps the entries on disk whose tag the written
\* journal lacks, instead of replacing the file
saveMigrationJournal_Merge(journal) ==
    IF ~writable THEN journalFile
    ELSE IF journalFile.state # "ok" THEN [state |-> "ok", data |-> journal]
    ELSE [state |-> "ok",
          data |-> [journal EXCEPT !.entries =
                      SelectSeq(journalFile.data.entries,
                                LAMBDA e : \A k \in 1..Len(journal.entries) :
                                              journal.entries[k].tag # e.tag)
                      \o journal.entries]]

\* The file after saveMigrationJournal(journal): rewritten whole, or untouched when
\* writeFileSync throws (the function then returns false)
saveMigrationJournal(journal) ==
    IF writable THEN [state |-> "ok", data |-> journal] ELSE journalFile

\* getMigrationFiles without its .sort()
getMigrationFiles_Unsorted(listing) ==
    SelectSeq(listing, LAMBDA file : EndsWith(file, DotSql))

\* getMigrationFiles on a directory listing
getMigrationFiles(listing) ==
    SortStrings(SelectSeq(listing, LAMBDA file : EndsWith(file, DotSql)))

\* TagOf that keeps the file name whole
TagOf_Whole(file) == file

\* file.replace('.sql', '')
TagOf(file) == ReplaceFirst(file, DotSql, <<>>)

\* getAppliedMigrations that reports no tag as applied
getAppliedMigrations_None(journal) == {}

\* getAppliedMigrations
getAppliedMigrations(journal) ==
    IF journal.present THEN {journal.entries[k].tag : k \in 1..Len(journal.entries)} ELSE {}

\* getPendingMigrations that ignores the applied tags
getPendingMigrations_All(files, applied) == files

\* getPendingMigrations
getPendingMigrations(files, applied) ==
    SelectSeq(files, LAMBDA file : TagOf(file) \notin applied)

Tags(entries) == [k \in 1..Len(entries) |-> entries[k].tag]

-----------------------------------------------------------------------------
(* Invocations of the async functions *)

\* The three require.main blocks of the script, in source order
Procs == 1..3

Undefined == <<>>
NoCount == [kind |-> "undefined", n |-> 0]

NewInvocation ==
    [pc |-> "idle", op |-> "none", target |-> Undefined, count |-> NoCount,
     startFile |-> journalFile, journal |-> NullJournal, files |-> <<>>,
     pending |-> <<>>, toRollback |-> <<>>, i |-> 0, successCount |-> 0,
     reads |-> <<>>, execs |-> <<>>, done |-> <<>>, saves |-> <<>>,
     result |-> "none", error |-> "none", pool |-> "none", poolEnds |-> 0,
     lost |-> <<>>]

NoRun ==
    [op |-> "none", result |-> "none", hadJournal |-> FALSE, done |-> <<>>,
     startTags |-> <<>>, lost |-> <<>>]

\* What the sequential caller remembers of a settled call
Summary(v) ==
    [op |-> v.op, result |-> v.result, hadJournal |-> v.journal.present,
     done |-> v.done, startTags |-> Tags(v.journal.entries), lost |-> v.lost]

\* A return or a throw that leaves the try block without calling pool.end()
EnterFinally_Leak(v) == [v EXCEPT !.pc = "ending"]

\* The finally block of either function: it calls pool.end() and awaits it
EnterFinally(v) == [v EXCEPT !.pc = "ending", !.poolEnds = @ + 1]

\* runMigrations after its loop: resolve, or throw "Failed after s/n"; the finally
\* block then awaits pool.end()
ApplyFinish(v) ==
    IF v.successCount = Len(v.pending)
    THEN EnterFinally([v EXCEPT !.result = "resolved"])
    ELSE EnterFinally([v EXCEPT !.result = "rejected", !.error = "failed_after"])

\* One pass of the for-of loop up to its await: executeMigration reads the file and
\* either returns false (break) or calls db.execute and suspends
ApplyIterate(v) ==
    IF v.i > Len(v.pending) THEN ApplyFinish(v)
    ELSE LET file == v.pending[v.i]
             content == readMigrationFile(file)
             w == [v EXCEPT !.reads = Append(@, file)]
         IN  IF Falsy(content) THEN ApplyFinish(w)
             ELSE [w EXCEPT !.pc = "execute", !.execs = Append(@, file)]

\* runMigrations from its call to its first await
RunMigrationsStart(listing) ==
    LET journal == readMigrationJournal
        files == getMigrationFiles(listing)
        applied == getAppliedMigrations(journal)
        pending == getPendingMigrations(files, applied)
        v == [NewInvocation EXCEPT !.op = "apply", !.pool = "open", !.journal = journal,
                                   !.files = files, !.pending = pending]
    IN  IF Len(pending) = 0
        THEN EnterFinally([v EXCEPT !.result = "resolved"])
        ELSE ApplyIterate([v EXCEPT !.i = 1])

\* ApplyUpdatedJournal that records the file after the one that succeeded, when
\* there is one: the entry is written before that file's execution
ApplyUpdatedJournal_Ahead(v) ==
    [v.journal EXCEPT !.entries =
        Append(v.journal.entries,
               MigrationEntry(Len(v.journal.entries), v.journal.version, now,
                              TagOf(v.pending[IF v.i < Len(v.pending) THEN v.i + 1 ELSE v.i])))]

\* The journal runMigrations saves after the file at position v.i succeeded
ApplyUpdatedJournal(v) ==
    [v.journal EXCEPT !.entries =
        Append(v.journal.entries,
               MigrationEntry(Len(v.journal.entries), v.journal.version, now,
                              TagOf(v.pending[v.i])))]

\* target is a non-empty string (if (target))
TargetGiven(target) == target # Undefined /\ target[1] # <<>>

\* CountGiven that accepts a count of 0
CountGiven_NonNegative(count) == count.kind = "number" /\ count.n >= 0

\* count && count > 0
CountGiven(count) == count.kind = "number" /\ count.n # 0 /\ count.n > 0

\* Array.prototype.findIndex on the entries' tags: 0-based, -1 when absent
FindIndex(entries, tag) ==
    LET hits == {k \in 1..Len(entries) : entries[k].tag = tag}
    IN  IF hits = {} THEN -1 ELSE (CHOOSE k \in hits : \A j \in hits : k <= j) - 1

\* Array.prototype.slice(start) for 0 <= start
Slice(seq, start) == SubSeq(seq, start + 1, Len(seq))

Max(a, b) == IF a >= b THEN a ELSE b

\* rollbackMigrations after its loop
RollbackFinish(v) ==
    IF v.successCount = Len(v.toRollback)
    THEN EnterFinally([v EXCEPT !.result = "resolved"])
    ELSE EnterFinally([v EXCEPT !.result = "rejected", !.error = "rollback_failed_after"])

\* RollbackIterate walking toRollback from its oldest entry
RollbackIterate_Ascending(v) ==
    IF v.i < 1 THEN RollbackFinish(v)
    ELSE LET filename == v.toRollback[Len(v.toRollback) - v.i + 1].tag \o DotSql
             content == readMigrationFile(filename)
             w == [v EXCEPT !.reads = Append(@, filename)]
         IN  IF Falsy(content) THEN RollbackFinish(w)
             ELSE [w EXCEPT !.pc = "execute", !.execs = Append(@, filename)]

\* One pass of the descending for loop up to its await
RollbackIterate(v) ==
    IF v.i < 1 THEN RollbackFinish(v)
    ELSE LET filename == v.toRollback[v.i].tag \o DotSql
             content == readMigrationFile(filename)
             w == [v EXCEPT !.reads = Append(@, filename)]
         IN  IF Falsy(content) THEN RollbackFinish(w)
             ELSE [w EXCEPT !.pc = "execute", !.execs = Append(@, filename)]

\* SelectToRollback whose default branch selects every entry
SelectToRollback_DefaultAll(entries, target, count) ==
    IF TargetGiven(target)
    THEN Slice(entries, FindIndex(entries, target[1]) + 1)
    ELSE IF CountGiven(count)
    THEN Slice(entries, Max(0, Len(entries) - count.n))
    ELSE entries

\* SelectToRollback that tests the count before the target
SelectToRollback_CountFirst(entries, target, count) ==
    IF CountGiven(count)
    THEN Slice(entries, Max(0, Len(entries) - count.n))
    ELSE IF TargetGiven(target)
    THEN Slice(entries, FindIndex(entries, target[1]) + 1)
    ELSE <<entries[Len(entries)]>>

\* The entries rollbackMigrations selects, given that the target (if any) was found
SelectToRollback(entries, target, count) ==
    IF TargetGiven(target)
    THEN Slice(entries, FindIndex(entries, target[1]) + 1)
    ELSE IF CountGiven(count)
    THEN Slice(entries, Max(0, Len(entries) - count.n))
    ELSE <<entries[Len(entries)]>>

\* A target was given and findIndex returned -1 (throw "Migration not found")
TargetNotFound_Never(entries, target) == FALSE

TargetNotFound(entries, target) ==
    TargetGiven(target) /\ FindIndex(entries, target[1]) = -1

\* RollbackMigrationsStart without the return on a null or empty journal
RollbackMigrationsStart_NoEarlyReturn(target, count) ==
    LET journal == readMigrationJournal
        v == [NewInvocation EXCEPT !.op = "rollback", !.pool = "open", !.journal = journal,
                                   !.target = target, !.count = count]
    IN  IF TargetNotFound(journal.entries, target)
        THEN EnterFinally([v EXCEPT !.result = "rejected", !.error = "not_found"])
        ELSE IF ~TargetGiven(target) /\ ~CountGiven(count) /\ Len(journal.entries) = 0
        THEN EnterFinally([v EXCEPT !.result = "resolved"])
        ELSE LET toRollback == SelectToRollback(journal.entries, target, count)
                 w == [v EXCEPT !.toRollback = toRollback]
             IN  IF Len(toRollback) = 0
                 THEN EnterFinally([w EXCEPT !.result = "resolved"])
                 ELSE RollbackIterate([w EXCEPT !.i = Len(toRollback)])

\* rollbackMigrations from its call to its first await
RollbackMigrationsStart(target, count) ==
    LET journal == readMigrationJournal
        v == [NewInvocation EXCEPT !.op = "rollback", !.pool = "open", !.journal = journal,
                                   !.target = target, !.count = count]
    IN  IF ~journal.present \/ Len(journal.entries) = 0
        THEN EnterFinally([v EXCEPT !.result = "resolved"])
        ELSE IF TargetNotFound(journal.entries, target)
        THEN EnterFinally([v EXCEPT !.result = "rejected", !.error = "not_found"])
        ELSE LET toRollback == SelectToRollback(journal.entries, target, count)
                 w == [v EXCEPT !.toRollback = toRollback]
             IN  IF Len(toRollback) = 0
                 THEN EnterFinally([w EXCEPT !.result = "resolved"])
                 ELSE RollbackIterate([w EXCEPT !.i = Len(toRollback)])

\* The journal rollbackMigrations saves after the entry at position v.i was undone
RollbackUpdatedJournal(v) ==
    [v.journal EXCEPT !.entries =
        SelectSeq(v.journal.entries, LAMBDA e : e.tag # v.toRollback[v.i].tag)]

\* Saving that does not test the journal
Saving_Always(v) == TRUE

\* Whether the step saves the journal: rollback always does, apply only when
\* the journal it read is not null (if (journal))
Saving(v) == v.op = "rollback" \/ v.journal.present

\* The continuation of `await executeMigration(...)` when db.execute resolved
AfterSuccess(v) ==
    LET updatedJournal == IF v.op = "apply" THEN ApplyUpdatedJournal(v)
                          ELSE RollbackUpdatedJournal(v)
        w == [v EXCEPT !.successCount = @ + 1,
                       !.done = Append(@, v.execs[Len(v.execs)]),
                       !.saves = IF Saving(v) THEN Append(@, updatedJournal) ELSE @]
    IN  IF v.op = "apply" THEN ApplyIterate([w EXCEPT !.i = @ + 1])
        ELSE RollbackIterate([w EXCEPT !.i = @ - 1])

\* AfterFailure without the break: the loop goes on to the next item
AfterFailure_Continue(v) ==
    IF v.op = "apply" THEN ApplyIterate([v EXCEPT !.i = @ + 1])
    ELSE RollbackIterate([v EXCEPT !.i = @ - 1])

\* The continuation when db.execute rejected: executeMigration returns false, break
AfterFailure(v) ==
    IF v.op = "apply" THEN ApplyFinish(v) ELSE RollbackFinish(v)

-----------------------------------------------------------------------------
(* Inputs *)

TagUniverse == {TagOf(f) : f \in {g \in FileUniverse : EndsWith(g, DotSql)}}

\* undefined, the empty string, a tag of no file, and the tags of two files
Targets == {Undefined, <<<<>>>>, <<GhostTag>>, <<TagOf(FileA)>>, <<TagOf(FileC)>>}

Counts ==
    {NoCount, [kind |-> "NaN", n |-> 0]} \cup {[kind |-> "number", n |-> k] : k \in -1..MaxCount}

\* Journals as the migration generator writes them: distinct tags in ascending
\* order, idx counting from 0
RECURSIVE EntriesOf(_)
EntriesOf(tags) ==
    IF tags = <<>> THEN <<>>
    ELSE Append(EntriesOf(SubSeq(tags, 1, Len(tags) - 1)),
                MigrationEntry(Len(tags) - 1, "7", 0, tags[Len(tags)]))

SetToSortedSeq(S) == SortStrings(CHOOSE l \in Listings(S) : TRUE)

InitialJournalFiles ==
    {[state |-> "missing", data |-> NullJournal], [state |-> "corrupt", data |-> NullJournal]}
    \cup {[state |-> "ok", data |-> MigrationJournal(EntriesOf(SetToSortedSeq(S)))] :
            S \in {T \in SUBSET TagUniverse : Cardinality(T) <= MaxJournal}}

\* Argument pairs of rollbackMigrations: every count without a target, every
\* target without a count, and a count of 1 with the empty target and with a tag
RollbackArgs ==
    {a \in Targets \X Counts :
        \/ a[1] = Undefined
        \/ a[2] = NoCount
        \/ a[1] \in {<<<<>>>>, <<TagOf(FileA)>>} /\ a[2] = [kind |-> "number", n |-> 1]}

-----------------------------------------------------------------------------
(* A caller that imports the module and awaits each call before the next *)

Init ==
    /\ dirFiles \in {S \in SUBSET FileUniverse : Cardinality(S) <= MaxFiles}
    /\ journalFile \in InitialJournalFiles
    /\ writable \in BOOLEAN
    /\ inv = [p \in Procs |-> [NewInvocation EXCEPT !.startFile = journalFile]]
    /\ prev = NoRun
    /\ runs = 0
    /\ now = 0
    /\ mainModule = FALSE
    /\ argv = <<>>
    /\ exitCode = -1

Callable == ~mainModule /\ runs < MaxRuns /\ inv[1].pc \in {"idle", "settled", "killed"}

CallRunMigrations ==
    /\ Callable
    /\ \E listing \in Listings(dirFiles) :
          inv' = [inv EXCEPT ![1] = RunMigrationsStart(listing)]
    /\ prev' = Summary(inv[1])
    /\ runs' = runs + 1
    /\ now' = now + 1
    /\ UNCHANGED <<dirFiles, journalFile, writable, mainModule, argv, exitCode>>

CallRollbackMigrations ==
    /\ Callable
    /\ \E a \in RollbackArgs :
          inv' = [inv EXCEPT ![1] = RollbackMigrationsStart(a[1], a[2])]
    /\ prev' = Summary(inv[1])
    /\ runs' = runs + 1
    /\ now' = now + 1
    /\ UNCHANGED <<dirFiles, journalFile, writable, mainModule, argv, exitCode>>

\* db.execute resolves
DbResolve(p) ==
    /\ exitCode = -1
    /\ inv[p].pc = "execute"
    /\ inv' = [inv EXCEPT ![p] = AfterSuccess(inv[p])]
    /\ journalFile' = IF ~Saving(inv[p]) THEN journalFile
                      ELSE IF inv[p].op = "apply"
                      THEN saveMigrationJournal(ApplyUpdatedJournal(inv[p]))
                      ELSE saveMigrationJournal(RollbackUpdatedJournal(inv[p]))
    /\ UNCHANGED <<dirFiles, writable, prev, runs, now, mainModule, argv, exitCode>>

\* db.execute rejects
DbReject(p) ==
    /\ exitCode = -1
    /\ inv[p].pc = "execute"
    /\ inv' = [inv EXCEPT ![p] = AfterFailure(inv[p])]
    /\ UNCHANGED <<dirFiles, journalFile, writable, prev, runs, now, mainModule, argv, exitCode>>

\* pool.end() resolves and the promise of the call settles; in a script the
\* .then/.catch handler of the block calls process.exit
PoolEnd(p) ==
    /\ exitCode = -1
    /\ inv[p].pc = "ending"
    /\ inv' = [inv EXCEPT ![p].pc = "settled", ![p].pool = "ended"]
    /\ exitCode' = IF mainModule THEN (IF inv[p].result = "resolved" THEN 0 ELSE 1) ELSE -1
    /\ UNCHANGED <<dirFiles, journalFile, writable, prev, runs, now, mainModule, argv>>

Next ==
    \/ CallRunMigrations
    \/ CallRollbackMigrations
    \/ DbResolve(1)
    \/ DbReject(1)
    \/ PoolEnd(1)

Spec == Init /\ [][Next]_vars

-----------------------------------------------------------------------------
(* Apply calls made by processes that may be killed *)

\* The process is killed while a call is suspended on `await db.execute(content)`:
\* the database has or has not executed the SQL by then, and the continuation
\* (successCount++, saveMigrationJournal, finally) never runs.  v.lost holds the
\* file the database executed without the process learning of it.
Kill(p) ==
    /\ exitCode = -1
    /\ inv[p].pc = "execute"
    /\ \E executed \in BOOLEAN :
          inv' = [inv EXCEPT ![p].pc = "killed", ![p].result = "killed",
                             ![p].lost = IF executed THEN <<inv[p].execs[Len(inv[p].execs)]>>
                                         ELSE <<>>]
    /\ UNCHANGED <<dirFiles, journalFile, writable, prev, runs, now, mainModule, argv, exitCode>>

\* Each apply is started by a fresh process once the previous one has ended
NextKill ==
    \/ CallRunMigrations
    \/ DbResolve(1)
    \/ DbReject(1)
    \/ PoolEnd(1)
    \/ Kill(1)

SpecKill == Init /\ [][NextKill]_vars

-----------------------------------------------------------------------------
(* Two runner instances applying against one database and one journal file *)

Runners == {1, 2}

\* A runner instance calls runMigrations; nothing makes it wait for the other
StartRunner(p) ==
    /\ ~mainModule
    /\ inv[p].pc = "idle"
    /\ \E listing \in Listings(dirFiles) :
          inv' = [inv EXCEPT ![p] = RunMigrationsStart(listing)]
    /\ now' = now + 1
    /\ UNCHANGED <<dirFiles, journalFile, writable, prev, runs, mainModule, argv, exitCode>>

NextTwo ==
    \/ \E p \in Runners : StartRunner(p)
    \/ \E p \in Runners : DbResolve(p)
    \/ \E p \in Runners : DbReject(p)
    \/ \E p \in Runners : PoolEnd(p)

SpecTwo == Init /\ [][NextTwo]_vars

-----------------------------------------------------------------------------
(* The file run as a script: all three require.main blocks execute *)

Rollback == <<"r", "o", "l", "l", "b", "a", "c", "k">>

DigitValue(c) ==
    CASE c = "0" -> 0 [] c = "1" -> 1 [] c = "2" -> 2 [] c = "3" -> 3 [] c = "4" -> 4
      [] c = "5" -> 5 [] c = "6" -> 6 [] c = "7" -> 7 [] c = "8" -> 8 [] c = "9" -> 9
      [] OTHER -> -1

\* Value of the longest prefix of decimal digits of s, continuing from acc
RECURSIVE DigitsValue(_, _)
DigitsValue(s, acc) ==
    IF s = <<>> \/ DigitValue(Head(s)) = -1 THEN acc
    ELSE DigitsValue(Tail(s), 10 * acc + DigitValue(Head(s)))

RECURSIVE TrimStart(_)
TrimStart(s) == IF s # <<>> /\ Head(s) = " " THEN TrimStart(Tail(s)) ELSE s

\* parseInt(s, 10): leading white space, an optional sign, then digits; NaN
\* when no digit follows
ParseInt(s) ==
    LET t == TrimStart(s)
        signed == t # <<>> /\ Head(t) \in {"-", "+"}
        body == IF signed THEN Tail(t) ELSE t
        magnitude == DigitsValue(body, 0)
    IN  IF body = <<>> \/ DigitValue(Head(body)) = -1 THEN [kind |-> "NaN", n |-> 0]
        ELSE [kind |-> "number", n |-> IF signed /\ Head(t) = "-" THEN 0 - magnitude ELSE magnitude]

\* args[k] of `const [command, ...args] = process.argv.slice(2)`, k counted from 0
Arg(k) == IF Len(argv) >= k + 2 THEN <<argv[k + 2]>> ELSE Undefined

\* args[1] ? parseInt(args[1], 10) : undefined
CliCount == IF Arg(1) # Undefined /\ Arg(1)[1] # <<>> THEN ParseInt(Arg(1)[1]) ELSE NoCount

\* Command lines tried
CommandLines ==
    {<<>>, <<Rollback>>, <<Rollback, TagOf(FileA)>>, <<Rollback, TagOf(FileC)>>,
     <<Rollback, GhostTag>>, <<Rollback, TagOf(FileA), <<"1">>>>,
     <<Rollback, <<>>, <<"2">>>>, <<Rollback, <<>>, <<"0">>>>,
     <<Rollback, <<>>, <<"-", "1">>>>, <<Rollback, <<>>, <<"x">>>>}

InitCLI ==
    /\ dirFiles \in {S \in SUBSET FileUniverse : Cardinality(S) <= MaxFiles}
    /\ journalFile \in InitialJournalFiles
    /\ writable \in BOOLEAN
    /\ inv = [p \in Procs |-> [NewInvocation EXCEPT !.startFile = journalFile]]
    /\ prev = NoRun
    /\ runs = 0
    /\ now = 0
    /\ mainModule = TRUE
    /\ argv \in CommandLines
    /\ exitCode = -1

\* The module body runs to completion: the block at lines 32-41 and the block at
\* lines 208-217 each call runMigrations (the hoisted declaration of line 144),
\* then the CLI block dispatches on argv.  Every call runs up to its first await;
\* the directory does not change in between, so the calls see one listing order.
ScriptStart ==
    /\ mainModule
    /\ \A p \in Procs : inv[p].pc = "idle"
    /\ \E listing \in Listings(dirFiles) :
          inv' = [p \in Procs |->
                    IF p = 1 THEN RunMigrationsStart(listing)
                    ELSE IF p = 2 THEN RunMigrationsStart(listing)
                    ELSE IF Len(argv) >= 1 /\ argv[1] = Rollback
                         THEN RollbackMigrationsStart(Arg(0), CliCount)
                         ELSE RunMigrationsStart(listing)]
    /\ now' = now + 1
    /\ UNCHANGED <<dirFiles, journalFile, writable, prev, runs, mainModule, argv, exitCode>>

NextCLI ==
    \/ ScriptStart
    \/ \E p \in Procs : DbResolve(p)
    \/ \E p \in Procs : DbReject(p)
    \/ \E p \in Procs : PoolEnd(p)

SpecCLI == InitCLI /\ [][NextCLI]_vars

-----------------------------------------------------------------------------
(* Properties of runMigrations and rollbackMigrations called one at a time *)

\* The call the sequential caller made last
Cur == inv[1]

\* Entries of the journal file as it was when invocation v started
StartEntries(v) == IF v.startFile.state = "ok" THEN v.startFile.data.entries ELSE <<>>

\* Entries of the journal file now
DiskEntries == IF journalFile.state = "ok" THEN journalFile.data.entries ELSE <<>>

TagSet(entries) == {entries[k].tag : k \in 1..Len(entries)}

SqlFiles == {f \in dirFiles : EndsWith(f, DotSql)}

Ascending(seq) == \A i, j \in 1..Len(seq) : i < j => StrLess(seq[i], seq[j])

\* C1: if an apply over an existing (and writable) journal resolves and apply is
\* then called again with the same files, the second call executes no SQL, saves
\* no journal and leaves the journal file as it found it.
C1_ApplyTwiceIsNoOp ==
    (/\ prev.op = "apply" /\ prev.result = "resolved" /\ prev.hadJournal
     /\ writable
     /\ Cur.op = "apply")
    => (/\ Cur.execs = <<>>
        /\ Cur.saves = <<>>
        /\ journalFile = Cur.startFile)

\* C2: when an apply over an existing (and writable) journal ends in failure
\* after some files succeeded, each file that succeeded has an entry in the
\* journal file at the end of the run, and none of them is pending in the next apply.
C2_SucceededFilesStayRecorded ==
    /\ (/\ Cur.op = "apply" /\ Cur.pc = "settled" /\ Cur.result = "rejected"
        /\ Cur.journal.present /\ writable)
       => \A k \in 1..Len(Cur.done) : TagOf(Cur.done[k]) \in TagSet(DiskEntries)
    /\ (/\ prev.op = "apply" /\ prev.result = "rejected" /\ prev.hadJournal
        /\ writable /\ Cur.op = "apply")
       => \A k \in 1..Len(prev.done) : prev.done[k] \notin Range(Cur.pending)

\* C3: a rollback by count N > 0 whose undo executions all succeed leaves the
\* (writable) journal file holding exactly the first max(0, L - N) of its L entries.
C3_RollbackByCountKeepsPrefix ==
    (/\ Cur.op = "rollback" /\ Cur.pc = "settled" /\ Cur.result = "resolved"
     /\ Cur.target = Undefined /\ CountGiven(Cur.count)
     /\ writable)
    => DiskEntries = SubSeq(StartEntries(Cur), 1,
                            Max(0, Len(StartEntries(Cur)) - Cur.count.n))

\* C4: a rollback to a tag at position i whose undo executions all succeed leaves
\* the (writable) journal file holding exactly entries 0..i; when the tag is the
\* newest entry nothing is executed and nothing is saved.
C4_RollbackByTagKeepsThroughTarget ==
    (/\ Cur.op = "rollback" /\ Cur.pc = "settled" /\ Cur.result = "resolved"
     /\ TargetGiven(Cur.target) /\ Cur.target[1] \in TagSet(StartEntries(Cur))
     /\ writable)
    => LET entries == StartEntries(Cur)
           i == CHOOSE k \in 1..Len(entries) : entries[k].tag = Cur.target[1]
       IN  /\ DiskEntries = SubSeq(entries, 1, i)
           /\ i = Len(entries) => Cur.execs = <<>> /\ Cur.saves = <<>>

\* The target of the last call is a non-empty tag that no journal entry carries
UnknownTarget ==
    /\ Cur.op = "rollback"
    /\ TargetGiven(Cur.target)
    /\ Cur.target[1] \notin TagSet(StartEntries(Cur))

C6_RollbackNewestFirst ==
    Cur.op = "rollback"
    => LET entries == StartEntries(Cur)
           L == Len(entries)
       IN  /\ Len(Cur.execs) <= L
           /\ \A k \in 1..Len(Cur.execs) : Cur.execs[k] = entries[L - k + 1].tag \o DotSql
           /\ Len(Cur.execs) - Len(Cur.done) \in {0, 1}
           /\ Cur.done = SubSeq(Cur.execs, 1, Len(Cur.done))
           /\ Cur.pc = "execute" => Len(Cur.execs) = Len(Cur.done) + 1

C6_Witness ==
    /\ Cur.op = "rollback"
    /\ Cur.pc = "settled"
    /\ Len(Cur.done) >= 2
    /\ Len(StartEntries(Cur)) = 3

\* C7: the files apply discovers are the .sql names of the directory in ascending
\* code-unit order whatever the listing order, pending is the sub-sequence of them
\* whose tag has no journal entry, and the executions are a prefix of pending.
C7_ApplyInFilenameOrder ==
    Cur.op = "apply"
    => (/\ Range(Cur.files) = SqlFiles
        /\ Ascending(Cur.files)
        /\ Range(Cur.pending) =
              {f \in SqlFiles : TagOf(f) \notin TagSet(StartEntries(Cur))}
        /\ Ascending(Cur.pending)
        /\ Len(Cur.execs) <= Len(Cur.pending)
        /\ Cur.execs = SubSeq(Cur.pending, 1, Len(Cur.execs)))

C7_Witness ==
    /\ Cur.op = "apply"
    /\ Cur.pc = "settled"
    /\ Len(Cur.execs) = 2
    /\ FileTxt \in dirFiles
    /\ Len(StartEntries(Cur)) >= 1

\* C8: when every discovered .sql file has a journal entry, apply resolves
\* without reading or executing a file and without saving the journal.
C8_NothingPendingNoAction ==
    (/\ Cur.op = "apply"
     /\ \A f \in SqlFiles : TagOf(f) \in TagSet(StartEntries(Cur)))
    => (/\ Cur.execs = <<>> /\ Cur.reads = <<>> /\ Cur.saves = <<>>
        /\ journalFile = Cur.startFile
        /\ Cur.pc \in {"ending", "settled"}
        /\ Cur.result = "resolved")

C8_Witness ==
    /\ Cur.op = "apply"
    /\ Cur.pc = "settled"
    /\ Cardinality(SqlFiles) >= 2
    /\ \A f \in SqlFiles : TagOf(f) \in TagSet(StartEntries(Cur))

\* C9: a rollback given neither target nor count selects exactly the newest
\* journal entry, executes at most that entry's file, and on success saves the
\* journal without that entry; on a journal without entries it resolves with no
\* execution and no save.
C9_DefaultRollbackIsNewestOnly ==
    (Cur.op = "rollback" /\ Cur.target = Undefined /\ Cur.count = NoCount)
    => LET entries == StartEntries(Cur)
           L == Len(entries)
       IN  IF L = 0
           THEN /\ Cur.result = "resolved"
                /\ Cur.execs = <<>> /\ Cur.saves = <<>> /\ journalFile = Cur.startFile
           ELSE /\ Cur.toRollback = <<entries[L]>>
                /\ Cur.execs \in {<<>>, <<entries[L].tag \o DotSql>>}
                /\ Cur.result = "resolved"
                   => (/\ Cur.done = <<entries[L].tag \o DotSql>>
                       /\ Len(Cur.saves) = 1
                       /\ Cur.saves[1].entries = SubSeq(entries, 1, L - 1)
                       /\ writable => DiskEntries = SubSeq(entries, 1, L - 1))

C9_Witness ==
    /\ Cur.op = "rollback" /\ Cur.target = Undefined /\ Cur.count = NoCount
    /\ Cur.pc = "settled" /\ Cur.result = "resolved"
    /\ Len(StartEntries(Cur)) = 3
    /\ Len(DiskEntries) = 2

-----------------------------------------------------------------------------
(* Properties of the script *)

\* C10: run with no arguments, the script exits with code 0 only if no migration
\* execution of the invocation failed, and with code 1 only if one did.
C10_ExitCodeTellsFailure ==
    (mainModule /\ argv = <<>> /\ exitCode # -1)
    => (/\ exitCode = 0 => \A p \in Procs : inv[p].result # "rejected"
        /\ exitCode = 1 => \E p \in Procs : inv[p].result = "rejected")

RollbackMode == mainModule /\ Len(argv) >= 1 /\ argv[1] = Rollback

\* C11: run with first argument 'rollback', the script applies no pending
\* migration, and it exits only after the rollback call has settled, with code 0
\* exactly when that call resolved.
C11_RollbackModeOnlyRollsBack ==
    RollbackMode
    => (/\ \A p \in Procs : inv[p].op = "apply" => inv[p].execs = <<>>
        /\ exitCode # -1
           => (/\ inv[3].op = "rollback" /\ inv[3].pc = "settled"
               /\ exitCode = 0 <=> inv[3].result = "resolved"))

-----------------------------------------------------------------------------
(* Further properties of the calls made one at a time *)

\* C12: a call in which a migration or undo executed successfully and the save
\* of the journal that followed failed does not resolve.
C12_FailedSaveFailsTheCall ==
    (/\ Cur.pc = "settled"
     /\ ~writable
     /\ Len(Cur.saves) > 0)
    => Cur.result = "rejected"

\* C13: on every path out of runMigrations and rollbackMigrations (success, no-op
\* return, failed migration, thrown error) pool.end() is called exactly once and
\* has completed when the promise settles; it is not called while the call is
\* still executing migrations.
C13_PoolEndedOnce ==
    \A p \in Procs :
        /\ inv[p].pc = "execute" => inv[p].poolEnds = 0 /\ inv[p].pool = "open"
        /\ inv[p].pc = "ending" => inv[p].poolEnds = 1 /\ inv[p].pool = "open"
        /\ inv[p].pc = "settled" => inv[p].poolEnds = 1 /\ inv[p].pool = "ended"

C13_Witness ==
    /\ Cur.pc = "settled" /\ Cur.error = "not_found" /\ Cur.poolEnds = 1
    /\ prev.op = "apply" /\ prev.result = "rejected"

\* C14: when an undo execution of a rollback fails (journal file writable), no
\* older entry is read or executed afterwards, the call rejects with
\* successCount equal to the number of undone entries, every entry undone
\* earlier in the call is absent from the journal file and every entry not
\* undone is still in it.
C14_PartialRollbackJournal ==
    (/\ Cur.op = "rollback" /\ Cur.pc = "settled"
     /\ Cur.error = "rollback_failed_after"
     /\ writable)
    => LET undone == {TagOf(Cur.done[k]) : k \in 1..Len(Cur.done)}
       IN  /\ Cur.result = "rejected"
           /\ Cur.successCount = Len(Cur.done)
           /\ Len(Cur.reads) = Len(Cur.done) + 1
           /\ TagSet(DiskEntries) = TagSet(StartEntries(Cur)) \ undone

\* C15: an apply that cannot read a journal file treats every discovered .sql
\* file as pending, executes them in order, never saves or changes the journal
\* file, resolves exactly when every execution succeeded, and leaves the same
\* files pending for the next apply.
C15_AbsentJournalApply ==
    /\ (Cur.op = "apply" /\ Cur.startFile.state # "ok")
       => (/\ Range(Cur.pending) = SqlFiles
           /\ Cur.execs = SubSeq(Cur.pending, 1, Len(Cur.execs))
           /\ Cur.saves = <<>>
           /\ journalFile = Cur.startFile
           /\ Cur.pc \in {"ending", "settled"}
              => (Cur.result = "resolved" <=> Cur.done = Cur.pending))
    /\ (Cur.op = "apply" /\ prev.op = "apply" /\ ~prev.hadJournal)
       => \A k \in 1..Len(prev.done) : prev.done[k] \in Range(Cur.pending)

C15_Witness ==
    /\ Cur.op = "apply" /\ prev.op = "apply" /\ ~prev.hadJournal
    /\ prev.result = "resolved" /\ Len(prev.done) >= 2
    /\ Cur.pc = "settled" /\ Cur.result = "resolved" /\ Cur.done = prev.done

\* The journal as it stood before the k-th save of invocation v
BeforeSave(v, k) == IF k = 1 THEN StartEntries(v) ELSE v.saves[k - 1].entries

IsPrefix(s, t) == Len(s) <= Len(t) /\ s = SubSeq(t, 1, Len(s))

\* C16: in an apply over an existing, writable journal the k-th save is the
\* journal as the previous step left it plus one last entry with idx equal to
\* that journal's length, the journal's version, the tag of the k-th succeeded
\* file and breakpoints true; after m successes the journal file holds the
\* original entries plus m new ones.
C16_EachSaveAppendsOne ==
    (Cur.op = "apply" /\ Cur.journal.present /\ writable)
    => (/\ Len(Cur.saves) = Len(Cur.done)
        /\ \A k \in 1..Len(Cur.saves) :
              LET before == BeforeSave(Cur, k)
                  after == Cur.saves[k].entries
              IN  /\ Len(after) = Len(before) + 1
                  /\ SubSeq(after, 1, Len(before)) = before
                  /\ after[Len(after)].idx = Len(before)
                  /\ after[Len(after)].version = Cur.journal.version
                  /\ after[Len(after)].tag = TagOf(Cur.done[k])
                  /\ after[Len(after)].breakpoints
        /\ Len(DiskEntries) = Len(StartEntries(Cur)) + Len(Cur.done))

\* C17: across the saves of one apply call (journal file writable) the journal
\* only grows: every journal written extends the file's initial content and
\* every journal written earlier in the call.
C17_ApplySavesOnlyGrow ==
    (Cur.op = "apply" /\ writable)
    => \A k \in 1..Len(Cur.saves) :
          /\ IsPrefix(StartEntries(Cur), Cur.saves[k].entries)
          /\ \A j \in 1..(k - 1) : IsPrefix(Cur.saves[j].entries, Cur.saves[k].entries)

\* C18: the idx values of the entries of the journal file are strictly
\* increasing in entry order after every sequence of apply and rollback calls.
C18_IdxStrictlyIncreasing ==
    \A i, j \in 1..Len(DiskEntries) : i < j => DiskEntries[i].idx < DiskEntries[j].idx

\* C19: within one run of the script at most one db.execute is in flight and no
\* migration file is passed to db.execute more than once.
C19_OneExecutionAtATime ==
    mainModule
    => (/\ Cardinality({p \in Procs : inv[p].pc = "execute"}) <= 1
        /\ \A p, q \in Procs : \A i \in 1..Len(inv[p].execs), j \in 1..Len(inv[q].execs) :
              inv[p].execs[i] = inv[q].execs[j] => p = q /\ i = j)

\* C20: an apply stops at the first pending file that is unreadable or whose
\* execution fails: the files read are a prefix of pending ending at that file,
\* each read once, an unreadable file is not passed to db.execute, and the call
\* rejects with "Failed after s/n" where s counts the files before the failing
\* one, all of which succeeded.
C20_ApplyStopsAtFirstFailure ==
    Cur.op = "apply"
    => (/\ Cur.reads = SubSeq(Cur.pending, 1, Len(Cur.reads))
        /\ \A k \in 1..Len(Cur.execs) : ~Falsy(readMigrationFile(Cur.execs[k]))
        /\ Cur.successCount = Len(Cur.done)
        /\ Cur.result = "rejected"
           => LET f == Len(Cur.reads)
              IN  /\ f >= 1
                  /\ Cur.error = "failed_after"
                  /\ Cur.done = SubSeq(Cur.pending, 1, f - 1)
                  /\ Cur.successCount = f - 1
                  /\ Cur.execs = IF Falsy(readMigrationFile(Cur.pending[f]))
                                 THEN Cur.done ELSE Append(Cur.done, Cur.pending[f]))

C20_Witness ==
    /\ Cur.op = "apply" /\ Cur.pc = "settled" /\ Cur.result = "rejected"
    /\ Len(Cur.pending) = 3
    /\ Cur.reads = <<FileA, FileB>>
    /\ Cur.execs = <<FileA>>

-----------------------------------------------------------------------------
(* Selection of the entries to roll back from the command line *)

\* C27: the script passes args[0] as target and args[1] as count, so a count is
\* given only after a target argument; when the target is a non-empty tag found
\* in the journal the entries selected are those after it, whatever the count,
\* and a positive count selects the newest entries only when the target argument
\* is the empty string.
C27_TargetBeforeCount ==
    (RollbackMode /\ inv[3].op = "rollback")
    => LET v == inv[3]
           entries == v.journal.entries
           after == {k \in 1..Len(entries) : \E j \in 1..(k - 1) : entries[j].tag = v.target[1]}
       IN  /\ v.target = Arg(0)
           /\ v.count # NoCount => v.target # Undefined
           /\ (TargetGiven(v.target) /\ v.target[1] \in TagSet(entries))
              => v.toRollback = [k \in 1..Cardinality(after) |-> entries[Len(entries) - Cardinality(after) + k]]
           /\ (CountGiven(v.count) /\ Len(entries) > 0)
              => (v.toRollback = SubSeq(entries, Max(0, Len(entries) - v.count.n) + 1, Len(entries))
                  <=> \/ v.target = <<<<>>>>
                      \/ /\ v.target[1] \in TagSet(entries)
                         /\ Cardinality(after) = Len(entries) - Max(0, Len(entries) - v.count.n))

C27_Witness ==
    /\ RollbackMode
    /\ inv[3].op = "rollback"
    /\ inv[3].target = <<TagOf(FileA)>> /\ inv[3].count = [kind |-> "number", n |-> 1]
    /\ Len(inv[3].journal.entries) = 3
    /\ Len(inv[3].toRollback) = 2
    /\ Len(inv[3].done) = 2

\* C28: a rollback without target whose count is 0, negative or NaN selects
\* exactly the newest entry of a non-empty journal, and executes at most that
\* entry's file.
C28_BadCountMeansNewestOnly ==
    (/\ Cur.op = "rollback" /\ ~TargetGiven(Cur.target)
     /\ Cur.count.kind = "NaN" \/ (Cur.count.kind = "number" /\ Cur.count.n <= 0)
     /\ Len(StartEntries(Cur)) > 0)
    => LET entries == StartEntries(Cur)
           newest == entries[Len(entries)]
       IN  /\ Cur.toRollback = <<newest>>
           /\ Cur.reads = <<newest.tag \o DotSql>>
           /\ Cur.execs \in {<<>>, <<newest.tag \o DotSql>>}
           /\ Cur.result = "resolved" => Cur.done = <<newest.tag \o DotSql>>

C28_Witness ==
    /\ Cur.op = "rollback" /\ Cur.target = Undefined
    /\ Cur.count = [kind |-> "number", n |-> 0]
    /\ Cur.pc = "settled" /\ Cur.result = "resolved"
    /\ Len(StartEntries(Cur)) = 3
    /\ Len(Cur.done) = 1

\* C30: a pending file that exists and is empty (b.sql) is read but never passed
\* to db.execute; the apply stops there, so no later pending file is read or
\* executed, and it rejects with successCount equal to the number of files
\* before the empty one.
C30_EmptyFileFailsApply ==
    (Cur.op = "apply" /\ FileB \in Range(Cur.pending))
    => LET k == CHOOSE j \in 1..Len(Cur.pending) : Cur.pending[j] = FileB
       IN  /\ FileText(FileB) = "" /\ FileB \in dirFiles
           /\ FileB \notin Range(Cur.execs)
           /\ \A j \in (k + 1)..Len(Cur.pending) :
                 Cur.pending[j] \notin Range(Cur.reads) \cup Range(Cur.execs)
           /\ Cur.result # "resolved"
           /\ FileB \in Range(Cur.reads)
              => (/\ Cur.pc \in {"ending", "settled"}
                  /\ Cur.result = "rejected" /\ Cur.error = "failed_after"
                  /\ Cur.successCount = k - 1
                  /\ Cur.done = SubSeq(Cur.pending, 1, k - 1))

C30_Witness ==
    /\ Cur.op = "apply" /\ Cur.pc = "settled" /\ Cur.result = "rejected"
    /\ Cur.pending = <<FileB, FileC>>
    /\ Cur.reads = <<FileB>>
    /\ Cur.execs = <<>>

-----------------------------------------------------------------------------
(* Invariants of the journal file over sequences of calls *)

\* The migrations directory holds the file `${tag}.sql`
HasFile(tag) == (tag \o DotSql) \in dirFiles

\* Tags of the journal as the first call of the caller read it
FirstStartTags == IF runs <= 1 THEN TagSet(StartEntries(Cur)) ELSE Range(prev.startTags)

\* C23: the directory being fixed, if every tag of the journal the first call
\* read names a file of the directory, then after every sequence of apply and
\* rollback calls every tag in the journal file names a file of the directory.
C23_JournalTagsNameFiles ==
    (\A t \in FirstStartTags : HasFile(t))
    => \A t \in TagSet(DiskEntries) : HasFile(t)

C23_Witness ==
    /\ runs = 2 /\ Cardinality(Range(prev.startTags)) >= 2
    /\ \A t \in FirstStartTags : HasFile(t)
    /\ prev.op = "rollback" /\ prev.result = "resolved"
    /\ Cur.op = "apply" /\ Cur.pc = "settled" /\ Cur.result = "resolved"
    /\ Len(Cur.done) >= 1
    /\ Len(DiskEntries) >= 2

\* C24: a journal file that does not parse is handled as a missing one: the
\* call holds a null journal, never writes the file, an apply takes every
\* discovered .sql file as pending (so the files a previous apply executed are
\* pending again), and a rollback resolves without reading or executing a file.
C24_CorruptLikeMissing ==
    (Cur.op # "none" /\ Cur.startFile.state \in {"missing", "corrupt"})
    => (/\ Cur.journal = NullJournal
        /\ Cur.saves = <<>>
        /\ journalFile = Cur.startFile
        /\ Cur.op = "apply"
           => (/\ Range(Cur.pending) = SqlFiles
               /\ Cur.pending = Cur.files
               /\ prev.op = "apply"
                  => \A k \in 1..Len(prev.done) : prev.done[k] \in Range(Cur.pending))
        /\ Cur.op = "rollback"
           => (/\ Cur.pc \in {"ending", "settled"}
               /\ Cur.result = "resolved" /\ Cur.error = "none"
               /\ Cur.reads = <<>> /\ Cur.execs = <<>>))

C24_Witness ==
    /\ Cur.startFile.state = "corrupt"
    /\ prev.op = "apply" /\ Len(prev.done) >= 1
    /\ Cur.op = "apply" /\ Cur.pc = "settled"
    /\ Len(Cur.done) >= 1 /\ Cur.done[1] = prev.done[1]

\* C25: after a rollback that resolved having undone the entries R (journal file
\* writable), the files pending for the next apply whose tag was in the journal
\* before the rollback are exactly those of R, and if that apply resolves the
\* journal file again holds every tag it held before the rollback.
C25_RollbackThenApplyRoundTrip ==
    (/\ prev.op = "rollback" /\ prev.result = "resolved" /\ Len(prev.done) >= 1
     /\ writable
     /\ Cur.op = "apply")
    => (/\ {TagOf(f) : f \in Range(Cur.pending)} \cap Range(prev.startTags)
              = {TagOf(f) : f \in Range(prev.done)}
        /\ (Cur.pc = "settled" /\ Cur.result = "resolved")
           => Range(prev.startTags) \subseteq TagSet(DiskEntries))

\* C26: a rollback that finds the journal file missing, unparseable or without
\* entries resolves for every target and count, a target that names no entry
\* included, without reading or executing a file and without saving the journal.
C26_EmptyJournalRollbackNoOp ==
    (Cur.op = "rollback" /\ Len(StartEntries(Cur)) = 0)
    => (/\ Cur.pc \in {"ending", "settled"}
        /\ Cur.result = "resolved" /\ Cur.error = "none"
        /\ Cur.toRollback = <<>>
        /\ Cur.reads = <<>> /\ Cur.execs = <<>> /\ Cur.saves = <<>>
        /\ journalFile = Cur.startFile)

C26_Witness ==
    /\ Cur.op = "rollback" /\ Cur.pc = "settled" /\ Cur.result = "resolved"
    /\ Cur.target = <<GhostTag>>
    /\ Cur.startFile.state = "ok" /\ Len(StartEntries(Cur)) = 0
    /\ prev.op = "rollback" /\ prev.result = "resolved" /\ prev.done = <<>>

\* C29: from a journal of pairwise distinct tags, after every sequence of apply
\* and rollback calls made one at a time, calls that failed part-way included,
\* no two entries of the journal file carry the same tag.
C29_NoDuplicateTags ==
    \A i, j \in 1..Len(DiskEntries) : i # j => DiskEntries[i].tag # DiskEntries[j].tag

C29_Witness ==
    /\ runs = 2
    /\ prev.result = "rejected" /\ Len(prev.done) >= 1
    /\ Cur.op = "apply" /\ Cur.pc = "settled" /\ Len(Cur.done) >= 1
    /\ Len(DiskEntries) >= 2
    /\ journalFile # Cur.startFile

-----------------------------------------------------------------------------
(* Properties of applies whose process may be killed *)

\* C21: during apply the tag of a file enters the journal file only after that
\* file's db.execute has resolved; a process killed after the database executed
\* the file and before the journal was saved leaves no entry for it, and the next
\* apply finds the file pending and, if it resolves, has executed it again.
C21_JournalFollowsDatabase ==
    /\ (Cur.op = "apply" /\ Cur.pc = "execute")
       => TagOf(Cur.execs[Len(Cur.execs)]) \notin TagSet(DiskEntries)
    /\ Cur.op = "apply"
       => \A t \in TagSet(DiskEntries) \ TagSet(StartEntries(Cur)) :
             \E k \in 1..Len(Cur.done) : t = TagOf(Cur.done[k])
    /\ (Cur.op = "apply" /\ Cur.result = "killed" /\ Cur.lost # <<>>)
       => TagOf(Cur.lost[1]) \notin TagSet(DiskEntries)
    /\ (prev.op = "apply" /\ prev.result = "killed" /\ prev.lost # <<>> /\ Cur.op = "apply")
       => (/\ prev.lost[1] \in Range(Cur.pending)
           /\ Cur.result = "resolved" => prev.lost[1] \in Range(Cur.done))

C21_Witness ==
    /\ prev.op = "apply" /\ prev.result = "killed" /\ prev.lost # <<>>
    /\ Len(prev.done) >= 1
    /\ Cur.op = "apply" /\ Cur.pc = "settled" /\ Cur.result = "resolved"
    /\ prev.lost[1] \in Range(Cur.done)

-----------------------------------------------------------------------------
(* Properties of two concurrent runner instances *)

LastSave(v) == v.saves[Len(v.saves)]

\* C22: two runners take no lock: runners that read the same journal file
\* compute the same pending list and may both have the same file on db.execute,
\* and every save replaces the journal file whole, so the file always equals the
\* last journal saved by one of the runners (last writer wins) and the entries
\* the other runner recorded meanwhile are gone.
C22_LastWriterWins ==
    /\ \A p, q \in Runners :
          (inv[p].op = "apply" /\ inv[q].op = "apply" /\ inv[p].startFile = inv[q].startFile)
          => inv[p].pending = inv[q].pending
    /\ \A p \in Runners :
          inv[p].pc = "execute" => inv[p].execs[Len(inv[p].execs)] \in Range(inv[p].pending)
    /\ (writable /\ \E p \in Runners : inv[p].saves # <<>>)
       => \E p \in Runners :
             inv[p].saves # <<>> /\ journalFile = [state |-> "ok", data |-> LastSave(inv[p])]

\* Both runners computed the same pending list and both executed the file of tag
\* t; runner 1 has finished, and the journal file is runner 2's last save, which
\* lacks an entry that runner 1 recorded
C22_Witness ==
    /\ inv[1].op = "apply" /\ inv[2].op = "apply"
    /\ inv[1].pending = inv[2].pending
    /\ \E f \in Range(inv[1].done) : f \in Range(inv[2].done)
    /\ inv[1].pc = "settled" /\ inv[1].saves # <<>> /\ inv[2].saves # <<>>
    /\ journalFile.state = "ok" /\ journalFile.data = LastSave(inv[2])
    /\ \E t \in TagSet(LastSave(inv[1]).entries) : t \notin TagSet(DiskEntries)

====
